---- MODULE Spec2Model ----
(***************************************************************************)
(* Model of the nonces crate (src/src/lib.rs): the IV holder `Iv`, the     *)
(* nonce deriver `Nonce` and the big-integer reference                     *)
(* `CryptoBigInt::seq_nonce`.                                              *)
(*                                                                         *)
(* Representation.  A byte is a number in 0..255 and a byte slice is a     *)
(* sequence of bytes; the Rust slice s[a..b] is SubSeq(s, a+1, b).         *)
(* Integers wider than TLC's machine integers (u32, u64, U128) are words:  *)
(* sequences of 16-bit limbs, least significant limb first, so that        *)
(* to_be_bytes / from_be_bytes are real conversions.  A panic (slice index *)
(* out of range, length mismatch in copy_from_slice, failed unwrap/expect, *)
(* usize underflow) is a result of its own, never a value.                 *)
(***************************************************************************)
EXTENDS Integers, Sequences, FiniteSets, TLC

VARIABLES value, iv, op, nonce, arr, panicked

vars == <<value, iv, op, nonce, arr, panicked>>

----------------------------------------------------------------------------
(* Bounds of the model and constants of the program *)

\* Longest byte slice handed to Iv::new (MAX_LEN + 2: two oversized lengths).
MaxInputLen == 18

\* Largest target size N tried with to_array::<N>().
MaxArrayLen == 17

NONCE_LEN == 12

MAX_LEN == 16

----------------------------------------------------------------------------
(* Bytes and words *)

Byte == 0..255

RECURSIVE BitXor(_, _, _)
\* The XOR of the n low-order bits of a and b (u8 ^ u8 for n = 8).
BitXor(a, b, n) ==
    IF n = 0 THEN 0
    ELSE (((a % 2) + (b % 2)) % 2) + 2 * BitXor(a \div 2, b \div 2, n - 1)

XorTable == [a \in Byte |-> [b \in Byte |-> BitXor(a, b, 8)]]

\* `*s ^= *iv` on two u8.
XorByte(a, b) == XorTable[a][b]

Zeros(n) == [i \in 1..n |-> 0]

\* An Option<T>: None, or Some(x).
None == <<>>
Some(x) == <<x>>

\* uN::to_be_bytes on a word of 16-bit limbs (least significant limb first):
\* the most significant limb comes first, each limb high byte first.
WordToBeBytes(w) ==
    [k \in 1..(2 * Len(w)) |->
        LET limb == w[Len(w) - ((k - 1) \div 2)]
        IN  IF (k % 2) = 1 THEN limb \div 256 ELSE limb % 256]

\* A slice range lo..hi is in bounds of a slice of length n (and lo >= 0: a
\* usize subtraction that underflows panics or wraps far out of range).
RangeOk(lo, hi, n) == 0 <= lo /\ lo <= hi /\ hi <= n

\* buf after its sub-slice buf[lo..lo+Len(sub)] has been overwritten by sub.
Splice(buf, lo, sub) ==
    [i \in 1..Len(buf) |->
        IF i > lo /\ i <= lo + Len(sub) THEN sub[i - lo] ELSE buf[i]]

\* The outcome of a step that may panic.
Panic == [panic |-> TRUE]
Done(b) == [panic |-> FALSE, buf |-> b]

\* dst.copy_from_slice(src): panics unless the two lengths are equal.
copy_from_slice(dst, src) == IF Len(dst) # Len(src) THEN Panic ELSE Done(src)

----------------------------------------------------------------------------
(* put_u64 *)

put_u64_le(v, bytes) ==
    IF ~RangeOk(0, 8, Len(bytes)) THEN Panic
    ELSE LET be == WordToBeBytes(v)
         IN  Done(Splice(bytes, 0, [k \in 1..8 |-> be[9 - k]]))

\* bytes[..8] must exist; its 8 bytes become u64::to_be_bytes(v).
put_u64(v, bytes) ==
    IF ~RangeOk(0, 8, Len(bytes)) THEN Panic
    ELSE Done(Splice(bytes, 0, WordToBeBytes(v)))

----------------------------------------------------------------------------
(* Iv *)

Ok(x) == [tag |-> "Ok", val |-> x]

IvLengthExceedsMaximum(a, m) ==
    [tag |-> "Err", kind |-> "IvLengthExceedsMaximum", actual |-> a, maximum |-> m]

NonceArraySizeMismatch(e, a) ==
    [tag |-> "Err", kind |-> "NonceArraySizeMismatch", expected |-> e, actual |-> a]

Panicked == [tag |-> "Panic"]

NoResult == [tag |-> "None"]

Iv_new_off_by_one(v) ==
    IF Len(v) >= MAX_LEN
    THEN IvLengthExceedsMaximum(Len(v), MAX_LEN)
    ELSE Ok([buf |-> Splice(Zeros(MAX_LEN), 0, v), used |-> Len(v)])

\* Iv::new(value)
Iv_new(v) ==
    IF Len(v) > MAX_LEN
    THEN IvLengthExceedsMaximum(Len(v), MAX_LEN)
    ELSE LET buf == Zeros(MAX_LEN)
         IN  IF ~RangeOk(0, Len(v), Len(buf)) THEN Panicked
             ELSE LET w == copy_from_slice(SubSeq(buf, 1, Len(v)), v)
                  IN  IF w.panic THEN Panicked
                      ELSE Ok([buf |-> Splice(buf, 0, w.buf), used |-> Len(v)])

\* Iv::len
Iv_len(i) == i.used

\* <Iv as AsRef<[u8]>>::as_ref: &self.buf[..self.used]
Iv_as_ref(i) == SubSeq(i.buf, 1, i.used)

\* <Iv as From<[u8; NONCE_LEN]>>::from: Iv::new(&bytes).expect(..)
Iv_from(bytes) ==
    LET r == Iv_new(bytes) IN IF r.tag = "Ok" THEN r ELSE Panicked

----------------------------------------------------------------------------
(* Nonce *)

LongIv_seven(iv_len) == iv_len >= 7

\* `if iv_len >= 8`
LongIv(iv_len) == iv_len >= 8

SeqRegion_front(iv_len) == <<0, 8>>

\* The range of `&mut buf[iv_len - 8..iv_len]`.
SeqRegion(iv_len) == <<iv_len - 8, iv_len>>

MixesPathId_never(path_id, iv_len) == FALSE

\* `if let Some(path_id) = path_id { if iv_len >= 12 {`
MixesPathId(path_id, iv_len) == path_id # None /\ iv_len >= 12

ShortSeqBytes_high(seq_bytes, iv_len) ==
    IF ~RangeOk(0, iv_len, Len(seq_bytes)) THEN Panic
    ELSE Done(SubSeq(seq_bytes, 1, iv_len))

\* `&seq_bytes[8 - iv_len..]`
ShortSeqBytes(seq_bytes, iv_len) ==
    IF ~RangeOk(8 - iv_len, Len(seq_bytes), Len(seq_bytes)) THEN Panic
    ELSE Done(SubSeq(seq_bytes, (8 - iv_len) + 1, Len(seq_bytes)))

\* Bitwise OR of two bytes: a + b - (a AND b), with 2 * (a AND b) = a + b - (a XOR b).
OrByte(a, b) == a + b - ((a + b - XorByte(a, b)) \div 2)

XorWithIv_or(buf, i) ==
    IF ~RangeOk(0, Iv_len(i), Len(buf)) \/ ~RangeOk(0, i.used, Len(i.buf))
    THEN Panic
    ELSE LET ivb == Iv_as_ref(i)
         IN  Done([k \in 1..Len(buf) |->
                      IF k <= Iv_len(i) /\ k <= Len(ivb)
                      THEN OrByte(buf[k], ivb[k]) ELSE buf[k]])

\* buf[..iv_len].iter_mut().zip(iv.as_ref()).for_each(|(s, iv)| *s ^= *iv)
XorWithIv(buf, i) ==
    IF ~RangeOk(0, Iv_len(i), Len(buf)) \/ ~RangeOk(0, i.used, Len(i.buf))
    THEN Panic
    ELSE LET ivb == Iv_as_ref(i)
         IN  Done([k \in 1..Len(buf) |->
                      IF k <= Iv_len(i) /\ k <= Len(ivb)
                      THEN XorByte(buf[k], ivb[k]) ELSE buf[k]])

\* The sequence number (and path id) written into the zeroed buffer: the
\* if/else of Nonce::new_inner before the XOR.
PackSeq(path_id, iv_len, seq) ==
    LET buf == Zeros(MAX_LEN)
    IN  IF LongIv(iv_len)
        THEN LET r == SeqRegion(iv_len)
             IN  IF ~RangeOk(r[1], r[2], Len(buf)) THEN Panic
                 ELSE LET w == put_u64(seq, SubSeq(buf, r[1] + 1, r[2]))
                      IN  IF w.panic THEN Panic
                          ELSE LET buf1 == Splice(buf, r[1], w.buf)
                               IN  IF MixesPathId(path_id, iv_len)
                                   THEN IF ~RangeOk(iv_len - 12, iv_len - 8, Len(buf1))
                                        THEN Panic
                                        ELSE LET c == copy_from_slice(
                                                     SubSeq(buf1, (iv_len - 12) + 1, iv_len - 8),
                                                     WordToBeBytes(path_id[1]))
                                             IN  IF c.panic THEN Panic
                                                 ELSE Done(Splice(buf1, iv_len - 12, c.buf))
                                   ELSE Done(buf1)
        ELSE LET seq_bytes == WordToBeBytes(seq)
                 src == ShortSeqBytes(seq_bytes, iv_len)
             IN  IF src.panic \/ ~RangeOk(0, iv_len, Len(buf)) THEN Panic
                 ELSE LET c == copy_from_slice(SubSeq(buf, 1, iv_len), src.buf)
                      IN  IF c.panic THEN Panic ELSE Done(Splice(buf, 0, c.buf))

\* Nonce::new_inner
new_inner(path_id, i, seq) ==
    LET iv_len == Iv_len(i)
        packed == PackSeq(path_id, iv_len, seq)
    IN  IF packed.panic THEN Panicked
        ELSE LET x == XorWithIv(packed.buf, i)
             IN  IF x.panic THEN Panicked
                 ELSE Ok([buf |-> x.buf, len |-> iv_len])

\* Nonce::new
Nonce_new(i, seq) == new_inner(None, i, seq)

\* Nonce::quic
Nonce_quic(path_id, i, pn) == new_inner(path_id, i, pn)

Nonce_len_capacity(n) == Len(n.buf)

\* Nonce::len
Nonce_len(n) == n.len

\* Nonce::as_bytes: &self.buf[..self.len]
as_bytes(n) == SubSeq(n.buf, 1, n.len)

to_array_lenient(n, N) ==
    IF n.len < N
    THEN NonceArraySizeMismatch(N, n.len)
    ELSE IF ~RangeOk(0, N, Len(n.buf)) THEN Panicked
         ELSE Ok(SubSeq(n.buf, 1, N))

\* Nonce::to_array::<N>
to_array(n, N) ==
    IF n.len # N
    THEN NonceArraySizeMismatch(N, n.len)
    ELSE IF ~RangeOk(0, N, Len(n.buf)) THEN Panicked
         ELSE LET s == SubSeq(n.buf, 1, N)
              IN  IF Len(s) # N THEN Panicked ELSE Ok(s)

----------------------------------------------------------------------------
(* CryptoBigInt *)

\* A word of n limbs from 2n big-endian bytes (U128::from_be_bytes).
WordFromBeBytes(b) ==
    [j \in 1..(Len(b) \div 2) |->
        LET k == Len(b) - (2 * j) + 1
        IN  (256 * b[k]) + b[k + 1]]

\* U128::from_u64: zero-extension to 8 limbs.
U128_from_u64(v) == [j \in 1..8 |-> IF j <= Len(v) THEN v[j] ELSE 0]

\* Uint::wrapping_xor, limb by limb.
wrapping_xor(x, y) == [j \in 1..Len(x) |-> BitXor(x[j], y[j], 16)]

\* CryptoBigInt::seq_nonce
seq_nonce(iv_bytes, seq_id) ==
    LET u128_iv == Splice(Zeros(16), 4, iv_bytes)
        iv_u128 == WordFromBeBytes(u128_iv)
        seq_no_u128 == U128_from_u64(seq_id)
        nonce_u128 == wrapping_xor(iv_u128, seq_no_u128)
        b == WordToBeBytes(nonce_u128)
    IN  [k \in 1..12 |-> b[k + 4]]

----------------------------------------------------------------------------
(* Inputs *)

\* The IV of test::compat and of the benchmark: 6fac81d4f2c3bebe02b8b375.
CompatIv == <<111, 172, 129, 212, 242, 195, 190, 190, 2, 184, 179, 117>>

\* Input byte slices of length n: the compat IV repeated or cut to n bytes,
\* and n bytes 0xff.
InputBytes(p, n) ==
    [k \in 1..n |-> IF p = 0 THEN CompatIv[((k - 1) % 12) + 1] ELSE 255]

Patterns == {0, 1}

Inputs == {InputBytes(p, n) : p \in Patterns, n \in 0..MaxInputLen}

\* 1 + 2^(8k) as a u64, for k in 1..7.
OnePlusByte(k) ==
    [j \in 1..4 |->
        (IF j = 1 THEN 1 ELSE 0)
        + (IF j = (k \div 2) + 1 THEN (IF (k % 2) = 0 THEN 1 ELSE 256) ELSE 0)]

\* u64 sequence numbers: 0, 1, u64::MAX, 0x0102030405060708, and 1 + 2^(8k).
SeqNumbers ==
    {<<0, 0, 0, 0>>, <<1, 0, 0, 0>>, <<65535, 65535, 65535, 65535>>,
     <<1800, 1286, 772, 258>>} \cup {OnePlusByte(k) : k \in 1..7}

\* u32 path ids: 0, 1 and 0x01020304.
PathIds == {<<0, 0>>, <<1, 0>>, <<772, 258>>}

----------------------------------------------------------------------------
(* The caller: one IV per epoch, a nonce per record, handed off as an array *)

NoOp == [kind |-> "none", path_id |-> None, seq |-> <<0, 0, 0, 0>>]

NoArray == [N |-> 0, res |-> NoResult]

Init ==
    /\ value = <<>>
    /\ iv = NoResult
    /\ op = NoOp
    /\ nonce = NoResult
    /\ arr = NoArray
    /\ panicked = FALSE

\* Whether the caller still holds a nonce it has not handed off.  A caller
\* converts each nonce once and is then done with the record (Drop).
Busy == arr.res.tag # "None"

\* let iv = Iv::new(v)
IvNew(v) ==
    LET r == Iv_new(v)
    IN  /\ ~panicked /\ ~Busy
        /\ value' = v
        /\ iv' = r
        /\ op' = NoOp
        /\ nonce' = NoResult
        /\ arr' = NoArray
        /\ panicked' = (r.tag = "Panic")

\* let iv = Iv::from(bytes), bytes: [u8; NONCE_LEN]
IvFrom(bytes) ==
    LET r == Iv_from(bytes)
    IN  /\ ~panicked /\ ~Busy
        /\ Len(bytes) = NONCE_LEN
        /\ value' = bytes
        /\ iv' = r
        /\ op' = NoOp
        /\ nonce' = NoResult
        /\ arr' = NoArray
        /\ panicked' = (r.tag = "Panic")

\* let nonce = Nonce::new(&iv, seq)
NonceNew(seq) ==
    /\ ~panicked /\ ~Busy
    /\ iv.tag = "Ok"
    /\ LET r == Nonce_new(iv.val, seq)
       IN  /\ nonce' = r
           /\ panicked' = (r.tag = "Panic")
    /\ op' = [kind |-> "new", path_id |-> None, seq |-> seq]
    /\ arr' = NoArray
    /\ UNCHANGED <<value, iv>>

\* let nonce = Nonce::quic(path_id, &iv, pn)
NonceQuic(path_id, pn) ==
    /\ ~panicked /\ ~Busy
    /\ iv.tag = "Ok"
    /\ LET r == Nonce_quic(path_id, iv.val, pn)
       IN  /\ nonce' = r
           /\ panicked' = (r.tag = "Panic")
    /\ op' = [kind |-> "quic", path_id |-> path_id, seq |-> pn]
    /\ arr' = NoArray
    /\ UNCHANGED <<value, iv>>

\* let a = nonce.to_array::<N>()
ToArray(N) ==
    /\ ~panicked /\ ~Busy
    /\ nonce.tag = "Ok"
    /\ LET r == to_array(nonce.val, N)
       IN  /\ arr' = [N |-> N, res |-> r]
           /\ panicked' = (r.tag = "Panic")
    /\ UNCHANGED <<value, iv, op, nonce>>

\* The nonce and its array go out of scope; the IV stays for the next record.
Drop ==
    /\ ~panicked /\ Busy
    /\ op' = NoOp
    /\ nonce' = NoResult
    /\ arr' = NoArray
    /\ UNCHANGED <<value, iv, panicked>>

Next ==
    \/ \E v \in Inputs : IvNew(v)
    \/ \E v \in Inputs : IvFrom(v)
    \/ \E seq \in SeqNumbers : NonceNew(seq)
    \/ \E path_id \in {None} \cup {Some(p) : p \in PathIds}, pn \in SeqNumbers :
          NonceQuic(path_id, pn)
    \/ \E N \in 0..MaxArrayLen : ToArray(N)
    \/ Drop

Spec == Init /\ [][Next]_vars

----------------------------------------------------------------------------
(* Vocabulary of the properties *)

\* The base-256 digit of weight 256^e of the unsigned integer w.
Digit(w, e) == (w[(e \div 2) + 1] \div (IF (e % 2) = 0 THEN 1 ELSE 256)) % 256

\* w mod 2^(8n), as a word.
ModBytes(w, n) ==
    [j \in 1..Len(w) |->
        IF 2 * j <= n THEN w[j]
        ELSE IF 2 * (j - 1) >= n THEN 0
        ELSE w[j] % 256]

\* Byte-wise XOR of two byte strings of the same length.
XorBytes(a, b) == [k \in 1..Len(a) |-> XorByte(a[k], b[k])]

Derived == op.kind \in {"new", "quic"} /\ nonce.tag = "Ok"

\* The length of the IV the caller holds.
L == Iv_len(iv.val)

----------------------------------------------------------------------------
(* C1 *)

\* C1: Iv::new(bytes) fails if and only if length(bytes) > 16, and then with
\* IvLengthExceedsMaximum{actual: length(bytes), maximum: 16}; for every
\* length 0..16 it succeeds, len() is length(bytes) (so used <= 16) and
\* as_ref() is exactly the input bytes in order.
C1_IvNewContract ==
    (iv.tag # "None") =>
        /\ (iv.tag = "Err") <=> (Len(value) > 16)
        /\ (iv.tag = "Err") =>
              /\ iv.kind = "IvLengthExceedsMaximum"
              /\ iv.actual = Len(value)
              /\ iv.maximum = 16
        /\ (Len(value) <= 16) =>
              /\ iv.tag = "Ok"
              /\ Iv_len(iv.val) = Len(value)
              /\ iv.val.used <= 16
              /\ Iv_as_ref(iv.val) = value

\* Iv::new was called with 17 bytes and returned the error.
C1_Witness == Len(value) = 17 /\ iv.tag = "Err"

----------------------------------------------------------------------------
(* C2 *)

\* C2: for a nonce of length L and a target size N, to_array::<N>() succeeds
\* if and only if N = L, and then returns the N bytes of as_bytes(); when
\* N # L it returns NonceArraySizeMismatch{expected: N, actual: L}.
C2_ToArrayContract ==
    (arr.res.tag # "None") =>
        /\ nonce.tag = "Ok"
        /\ Nonce_len(nonce.val) \in 0..16
        /\ (arr.res.tag = "Ok") <=> (arr.N = Nonce_len(nonce.val))
        /\ (arr.N = Nonce_len(nonce.val)) =>
              /\ arr.res.tag = "Ok"
              /\ Len(arr.res.val) = arr.N
              /\ arr.res.val = as_bytes(nonce.val)
        /\ (arr.N # Nonce_len(nonce.val)) =>
              /\ arr.res.tag = "Err"
              /\ arr.res.kind = "NonceArraySizeMismatch"
              /\ arr.res.expected = arr.N
              /\ arr.res.actual = Nonce_len(nonce.val)

\* A 12-byte nonce was converted to a 16-byte array, which failed.
C2_Witness ==
    /\ nonce.tag = "Ok" /\ Nonce_len(nonce.val) = 12
    /\ arr.N = 16 /\ arr.res.tag = "Err"

----------------------------------------------------------------------------
(* C3 *)

\* C3: for an IV of length L in 8..16, Nonce::new(iv, seq) XOR iv, over the
\* first L bytes, is the L-byte string that is zero in positions [0, L-8)
\* and holds the big-endian bytes of seq in positions [L-8, L): the byte at
\* position L-1-e is the base-256 digit of seq of weight 256^e.
C3_XorRecoversSeq ==
    (Derived /\ op.kind = "new" /\ L \in 8..16) =>
        /\ Len(as_bytes(nonce.val)) = L
        /\ LET P == XorBytes(as_bytes(nonce.val), value)
           IN  /\ \A k \in 1..(L - 8) : P[k] = 0
               /\ \A e \in 0..7 : P[L - e] = Digit(op.seq, e)

\* Nonce::new was applied to a 12-byte IV and seq 0x0102030405060708.
C3_Witness ==
    /\ Derived /\ op.kind = "new" /\ L = 12
    /\ op.seq = <<1800, 1286, 772, 258>>

----------------------------------------------------------------------------
(* C4 *)

\* C4: the nonce returned by Nonce::new and by Nonce::quic (path id absent
\* or present) for an IV of length L has len() = L and as_bytes() of exactly
\* L bytes.
C4_LengthPreserved ==
    Derived =>
        /\ Nonce_len(nonce.val) = Len(value)
        /\ Len(as_bytes(nonce.val)) = Len(value)
        /\ Len(value) = L

\* Nonce::quic with a path id was applied to a 5-byte IV.
C4_Witness ==
    Derived /\ op.kind = "quic" /\ op.path_id # None /\ Len(value) = 5

----------------------------------------------------------------------------
(* C5 *)

\* C5: for a fixed IV of length L in 8..16, two calls of Nonce::new with
\* different sequence numbers return different bytes: every step from one
\* Nonce::new result to the next, under the same IV and with another
\* sequence number, changes the nonce bytes.
C5_Step ==
    (/\ Derived /\ op.kind = "new"
     /\ Derived' /\ op'.kind = "new"
     /\ iv' = iv /\ L \in 8..16
     /\ op'.seq # op.seq)
    => as_bytes(nonce'.val) # as_bytes(nonce.val)

C5_DistinctNonces == [][C5_Step]_vars

\* Nonce::new was applied to a 16-byte IV and seq 1 + 2^56.
C5_Witness ==
    Derived /\ op.kind = "new" /\ L = 16 /\ op.seq = <<1, 0, 0, 256>>

----------------------------------------------------------------------------
(* C6 *)

\* The path id bytes of a Nonce::quic call: 4 big-endian bytes.
PathBytes(path_id) == [k \in 1..4 |-> Digit(path_id[1], 4 - k)]

\* C6: on every step from Nonce::new(iv, n) to Nonce::quic(path_id, iv, n)
\* with the same IV and n: the two nonces are equal when path_id is absent
\* and when it is present but L < 12; when path_id is present and nonzero
\* and L is in 12..16 they differ, all their differences lie in positions
\* [L-12, L-8), and those positions hold iv XOR the big-endian bytes of
\* path_id.
C6_Step ==
    (/\ Derived /\ op.kind = "new"
     /\ Derived' /\ op'.kind = "quic"
     /\ iv' = iv /\ op'.seq = op.seq)
    => LET a == as_bytes(nonce.val)
           q == as_bytes(nonce'.val)
           pid == op'.path_id
       IN  /\ (pid = None \/ L < 12) => (nonce'.val = nonce.val /\ q = a)
           /\ (pid # None /\ L \in 12..16) =>
                 /\ Len(q) = Len(a)
                 /\ \A k \in 1..L : (k <= L - 12 \/ k > L - 8) => q[k] = a[k]
                 /\ \A k \in 1..4 :
                       q[L - 12 + k] = XorByte(value[L - 12 + k], PathBytes(pid)[k])
                 /\ (pid # Some(<<0, 0>>)) => q # a

----------------------------------------------------------------------------
(* C7 *)

\* The 12-byte value path_id_be(4) || pn_be(8), right-aligned to n bytes:
\* zero-extended on the left when n > 12, cut to its low-order n bytes when
\* n < 12.
PathAndPn(path_id, pn, n) ==
    [k \in 1..n |->
        LET e == n - k
        IN  IF e < 8 THEN Digit(pn, e)
            ELSE IF e < 12 /\ path_id # None THEN Digit(path_id[1], e - 8)
            ELSE 0]

\* C7: the nonce of Nonce::quic(path_id, iv, pn) is iv XOR the big-endian
\* integer path_id (or 0) || pn, right-aligned to the IV.
C7_QuicIsXorOfConcatenation ==
    (Derived /\ op.kind = "quic") =>
        as_bytes(nonce.val) = XorBytes(value, PathAndPn(op.path_id, op.seq, L))

----------------------------------------------------------------------------
(* C8 *)

\* C8: for a 12-byte IV, Nonce::new(Iv::new(iv), seq).as_bytes() equals
\* CryptoBigInt::seq_nonce(iv, seq); IV 6fac81d4f2c3bebe02b8b375 with seq 1
\* yields 6fac81d4f2c3bebe02b8b374.
C8_CompatWithBigInt ==
    (Derived /\ op.kind = "new" /\ Len(value) = 12) =>
        /\ as_bytes(nonce.val) = seq_nonce(value, op.seq)
        /\ (value = CompatIv /\ op.seq = <<1, 0, 0, 0>>) =>
              as_bytes(nonce.val) =
                  <<111, 172, 129, 212, 242, 195, 190, 190, 2, 184, 179, 116>>

\* test::compat: Nonce::new on the compat IV with seq 1.
C8_Witness ==
    Derived /\ op.kind = "new" /\ value = CompatIv /\ op.seq = <<1, 0, 0, 0>>

----------------------------------------------------------------------------
(* C9 *)

\* C9: no call panics: Iv::new and Iv::from on their inputs, Nonce::new and
\* Nonce::quic on every constructed IV, and to_array on every nonce, all
\* return (a value or a typed error); every slice range is in bounds.
C9_NoPanic ==
    /\ ~panicked
    /\ iv.tag # "Panic"
    /\ nonce.tag # "Panic"
    /\ arr.res.tag # "Panic"
    /\ (op.kind # "none") => nonce.tag = "Ok"

\* Nonce::quic with a path id returned on a 7-byte IV.
C9_Witness ==
    Derived /\ op.kind = "quic" /\ op.path_id # None /\ L = 7 /\ ~panicked

----------------------------------------------------------------------------
(* C10 *)

\* Nonce byte i of a short IV is iv[i] XOR byte 8 - L + i of the big-endian
\* encoding of seq: the digit of weight 256^(L-1-i).
C10_Bytes ==
    (Derived /\ L < 8) =>
        /\ Len(as_bytes(nonce.val)) = L
        /\ \A k \in 1..L :
              as_bytes(nonce.val)[k] = XorByte(value[k], Digit(op.seq, L - k))

\* Two derivations in a row under the same short IV give the same bytes if
\* and only if their sequence numbers are congruent modulo 2^(8L).
C10_Step ==
    (Derived /\ Derived' /\ iv' = iv /\ L < 8)
    => ((as_bytes(nonce'.val) = as_bytes(nonce.val))
        <=> (ModBytes(op'.seq, L) = ModBytes(op.seq, L)))

\* C10: for an IV of length L < 8, nonce byte i is iv[i] XOR byte 8 - L + i
\* of the 8-byte big-endian encoding of seq, and for a fixed IV two sequence
\* numbers yield the same nonce if and only if they are congruent modulo
\* 2^(8L).
C10_ShortIvTruncation == []C10_Bytes /\ [][C10_Step]_vars

\* A nonce was derived from a 3-byte IV and seq 1 + 2^24, which collides
\* with seq 1.
C10_Witness ==
    Derived /\ L = 3 /\ op.seq = <<1, 256, 0, 0>>

====
